---- MODULE Spec2Model ----
(***************************************************************************)
(* The two batch loaders of curatedMetagenomicDataETL as one state machine. *)
(*                                                                         *)
(*   load_sample_id_map_to_bigquery.py  the local-file loader              *)
(*   load_sra_accessions.py             the remote bulk loader             *)
(*                                                                         *)
(* A process is one invocation of one of the scripts.  The warehouse       *)
(* tables, the staging bucket and the local temporary directories are      *)
(* shared state.  Strings that the code builds (paths, URIs, glob          *)
(* patterns) are sequences of tokens, so that matching a pattern against   *)
(* a name is computed, not assumed.                                        *)
(***************************************************************************)
EXTENDS Integers, Sequences, FiniteSets, TLC

\* ------------------------------------------------------------------ bounds
\* Data records after the header in a source CSV.
MaxRows == 1
\* Successive runs of one process in SeqSpec.
MaxRuns == 3
\* Parquet files the conversion may write into the temporary directory.
MaxChunks == 2

\* The invocations that may be alive at the same time.
Procs == {1, 2}

\* ------------------------------------------------------------ source files
\* A source CSV is its sequence of logical records (allow_quoted_newlines
\* makes the warehouse count logical records, not physical lines).
Header == "header"
GoodRecs == {"r1", "r2"}
\* A record that violates the explicit four-column schema.
BadRec == "bad"
\* The value of a path at which no file exists (no file starts like this).
Missing == <<"ENOENT">>
\* A row no source holds: what an earlier, unrelated load left in a table.
OldRow == "old"

SeqsUpTo(S, n) == UNION {[1..k -> S] : k \in 0..n}

\* Files of up to MaxRows data records that all fit the schema.
GoodFiles == {<<Header>> \o s : s \in SeqsUpTo(GoodRecs, MaxRows)}

\* The files a run may find: the good ones, and those with one bad record.
\* The job rejects a file for a bad record wherever it stands, so it stands
\* last.
CsvFiles ==
    GoodFiles \cup {Append(f, BadRec) : f \in {g \in GoodFiles : Len(g) <= MaxRows}}

\* ---------------------------------------------------------------- tables
\* TABLE_ID of each script; PROJECT_ID and DATASET_ID are the same in both.
LocalTable == "src_sample_id_map"
RemoteTable == "src_sra_accessions"
Tables == {LocalTable, RemoteTable}

\* ------------------------------------------------- the load job's settings
\* LocalJobConfig with the fault of appending instead of truncating.
LocalJobConfigAppend ==
    [source_format |-> "CSV", field_delimiter |-> ",", skip_leading_rows |-> 1,
     write_disposition |-> "WRITE_APPEND", compression |-> "NONE"]

\* LocalJobConfig with the fault of not skipping the header.
LocalJobConfigNoSkip ==
    [source_format |-> "CSV", field_delimiter |-> ",", skip_leading_rows |-> 0,
     write_disposition |-> "WRITE_TRUNCATE", compression |-> "NONE"]

\* bigquery.LoadJobConfig(...) of the local-file loader.
LocalJobConfig ==
    [source_format |-> "CSV", field_delimiter |-> ",", skip_leading_rows |-> 1,
     write_disposition |-> "WRITE_TRUNCATE", compression |-> "NONE"]

\* bigquery.LoadJobConfig(...) of the remote bulk loader.
RemoteJobConfig ==
    [source_format |-> "CSV", field_delimiter |-> "TAB", skip_leading_rows |-> 1,
     write_disposition |-> "WRITE_TRUNCATE", compression |-> "GZIP"]

\* ------------------------------------------------ the warehouse's load job
\* skip_leading_rows: the first n records of the input are not loaded.
SkipLeading(recs, n) ==
    IF n >= Len(recs) THEN <<>> ELSE SubSeq(recs, n + 1, Len(recs))

\* The records of an input that the job would load.
Parsed(recs, cfg) == SkipLeading(recs, cfg.skip_leading_rows)

\* A record outside the schema fails the whole job (max_bad_records is 0);
\* under the all-STRING schema a header that is not skipped is a row.
HasBadRecord(recs, cfg) ==
    \E i \in 1..Len(Parsed(recs, cfg)) : Parsed(recs, cfg)[i] = BadRec

\* The table after a job that succeeded, by its write disposition.
Written(old, recs, cfg) ==
    IF cfg.write_disposition = "WRITE_TRUNCATE"
    THEN Parsed(recs, cfg)
    ELSE old \o Parsed(recs, cfg)

\* ------------------------------------------------------ exception classes
\* Python's hierarchy: SystemExit derives from BaseException, not Exception.
ExcClasses == {"SystemExit", "Exception"}

\* Whether "except Exception" catches an exception of class cls.
CaughtByExceptException(cls) == cls = "Exception"

\* ------------------------------------------------- names, paths, patterns
GCS_BUCKET == <<"cmgd-data">>
GCS_PATH_PREFIX == <<"sra_metadata", "/", "chunks", "/", "SRA_Accessions">>

\* Positions of the separator in a token string.
Slashes(s) == {i \in 1..Len(s) : s[i] = "/"}

Max(S) == CHOOSE x \in S : \A y \in S : y <= x

\* s.rsplit('/', 1)[0]: what precedes the last separator (all of s without one).
RSplitHead(s) ==
    IF Slashes(s) = {} THEN s ELSE SubSeq(s, 1, Max(Slashes(s)) - 1)

\* A shell or warehouse wildcard: "*" stands for any run of tokens within
\* one path component.
RECURSIVE GlobMatch(_, _)
GlobMatch(pat, name) ==
    IF pat = <<>> THEN name = <<>>
    ELSE IF Head(pat) = "*"
    THEN \E k \in 0..Len(name) :
            /\ \A i \in 1..k : name[i] # "/"
            /\ GlobMatch(Tail(pat), SubSeq(name, k + 1, Len(name)))
    ELSE /\ name # <<>>
         /\ Head(name) = Head(pat)
         /\ GlobMatch(Tail(pat), Tail(name))

\* FILENAME_PATTERN 'sra_accessions_{i}' of the COPY ... (FORMAT 'parquet').
ParquetName(i) == <<"sra_accessions_", ToString(i), ".parquet">>

\* The files a conversion that wrote n files leaves in its output directory.
ParquetFiles(n) == {ParquetName(i) : i \in 0..(n - 1)}

\* chunks_dir / "*.parquet", as a pattern on the names inside chunks_dir.
UploadPattern == <<"*", ".parquet">>

\* gs://{GCS_BUCKET}/{GCS_PATH_PREFIX.rsplit('/', 1)[0]}/
GcsDestination ==
    <<"gs://">> \o GCS_BUCKET \o <<"/">> \o RSplitHead(GCS_PATH_PREFIX) \o <<"/">>

\* gs://{GCS_BUCKET}/{GCS_PATH_PREFIX}_part*.tab.gz
WildcardUri ==
    <<"gs://">> \o GCS_BUCKET \o <<"/">> \o GCS_PATH_PREFIX
        \o <<"_part", "*", ".tab.gz">>

\* "gcloud storage cp <pattern> <destination>/": the files of a directory
\* that the pattern selects, and the object each becomes.
Selected(files, pat) == {f \in files : GlobMatch(pat, f)}
ObjectFor(dest, f) == dest \o f

\* The objects of a bucket that a wildcard URI denotes.
Denoted(objects, uri) == {o \in objects : GlobMatch(uri, o)}

\* Whether the remote loader's job settings can read an object: the job
\* is told CSV under GZIP, which a ".tab.gz" object is and a ".parquet" is not.
Readable(o, cfg) ==
    /\ cfg.source_format = "CSV"
    /\ cfg.compression = "GZIP"
    /\ o # <<>>
    /\ o[Len(o)] = ".tab.gz"

RECURSIVE SetToSeq(_)
SetToSeq(S) ==
    IF S = {} THEN <<>>
    ELSE LET x == CHOOSE y \in S : TRUE IN <<x>> \o SetToSeq(S \ {x})

\* ------------------------------------------------------------------ state
VARIABLES
    script,     \* script[p]: which loader invocation p runs
    pc,         \* pc[p]: where p is in its script
    ip,         \* ip[p]: the statement of the remote loader's try block p is at
    runs,       \* runs[p]: invocations p has started
    quota,      \* quota[p]: invocations p may start
    csv,        \* csv[p]: the file at LOCAL_CSV for p's run (or Missing)
    job,        \* job[p]: the load job p submitted (or NoJob)
    log,        \* log[p]: the operations p's run performed, in order
    status,     \* status[p]: the exit status of p's run (Running until it ends)
    surfaced,   \* surfaced[p]: the job errors p's run printed
    observed,   \* observed[p]: what p's verify queries saw, in order
    table,      \* table[t]: the rows of warehouse table t
    table0,     \* table0[p]: the tables when p's run started
    lastCommit, \* the process whose load job replaced LocalTable last (0: none)
    tempDir,    \* tempDir[p]: the directory mkdtemp gave p's run (or NoDir)
    fs,         \* fs[d]: the files of each existing temporary directory d
    bucket,     \* the objects in the staging bucket
    bucket0,    \* the bucket when the specification started
    wildcard,   \* wildcard[p]: the URI upload_chunks_parallel returned to p
    staged      \* staged[p]: the objects p's upload step copied to the bucket

vars == <<script, pc, ip, runs, quota, csv, job, log, status, surfaced,
          observed, table, table0, lastCommit, tempDir, fs, bucket, bucket0,
          wildcard, staged>>

NoJob == [state |-> "NONE"]
NoDir == <<>>
NoUri == <<>>
\* A run's exit status: none while it runs, then the code it ended with.
Running == <<>>
Exited(code) == <<code>>

Entry(op, ok) == [op |-> op, ok |-> ok]

\* The tables an earlier load may have left behind.
PriorTables ==
    {[t \in Tables |-> IF t = LocalTable THEN l ELSE r] :
        l \in {<<>>, <<OldRow>>}, r \in {<<>>, << <<OldRow>> >>}}

\* ------------------------------------------------------ starting a run
Start(p) ==
    /\ pc[p] \in {"idle", "exited"}
    /\ runs[p] < quota[p]
    /\ \E s \in {"local", "remote"} :
         /\ script' = [script EXCEPT ![p] = s]
         /\ IF s = "local"
            THEN /\ \E f \in CsvFiles \cup {Missing} : csv' = [csv EXCEPT ![p] = f]
                 /\ pc' = [pc EXCEPT ![p] = "l_exists"]
            ELSE /\ csv' = [csv EXCEPT ![p] = Missing]
                 /\ pc' = [pc EXCEPT ![p] = "r_mkdtemp"]
    /\ runs' = [runs EXCEPT ![p] = @ + 1]
    /\ ip' = [ip EXCEPT ![p] = 0]
    /\ job' = [job EXCEPT ![p] = NoJob]
    /\ log' = [log EXCEPT ![p] = <<>>]
    /\ status' = [status EXCEPT ![p] = Running]
    /\ surfaced' = [surfaced EXCEPT ![p] = <<>>]
    /\ observed' = [observed EXCEPT ![p] = <<>>]
    /\ table0' = [table0 EXCEPT ![p] = table]
    /\ tempDir' = [tempDir EXCEPT ![p] = NoDir]
    /\ wildcard' = [wildcard EXCEPT ![p] = NoUri]
    /\ staged' = [staged EXCEPT ![p] = {}]
    /\ UNCHANGED <<quota, table, lastCommit, fs, bucket, bucket0>>

\* ------------------------------------------------- the local-file loader
\* PathExists with the fault of not testing the path.
PathExistsUnchecked(f) == TRUE

\* csv_path.exists()
PathExists(f) == f # Missing

\* if not csv_path.exists(): print; sys.exit(1)
LExists(p) ==
    /\ pc[p] = "l_exists"
    /\ IF PathExists(csv[p])
       THEN /\ pc' = [pc EXCEPT ![p] = "l_client"]
            /\ UNCHANGED status
       ELSE /\ pc' = [pc EXCEPT ![p] = "exited"]
            /\ status' = [status EXCEPT ![p] = Exited(1)]
    /\ UNCHANGED <<script, ip, runs, quota, csv, job, log, surfaced, observed,
                   table, table0, lastCommit, tempDir, fs, bucket, bucket0,
                   wildcard, staged>>

\* client = bigquery.Client(project=PROJECT_ID), outside any try: without
\* usable credentials it raises and the interpreter ends the run with 1.
LClient(p) ==
    /\ pc[p] = "l_client"
    /\ \E ok \in BOOLEAN :
         /\ log' = [log EXCEPT ![p] = Append(@, Entry("client", ok))]
         /\ IF ok
            THEN /\ pc' = [pc EXCEPT ![p] = "l_submit"]
                 /\ UNCHANGED status
            ELSE /\ pc' = [pc EXCEPT ![p] = "exited"]
                 /\ status' = [status EXCEPT ![p] = Exited(1)]
    /\ UNCHANGED <<script, ip, runs, quota, csv, job, surfaced, observed,
                   table, table0, lastCommit, tempDir, fs, bucket, bucket0,
                   wildcard, staged>>

\* with open(csv_path, "rb") as f: load_job = client.load_table_from_file(...)
\* open raises when the file is not there; the submission may raise, and
\* then no job exists and load_job stays unbound.
LSubmit(p) ==
    /\ pc[p] = "l_submit"
    /\ IF ~PathExists(csv[p])
       THEN /\ pc' = [pc EXCEPT ![p] = "l_except"]
            /\ UNCHANGED <<job, log>>
       ELSE \E ok \in BOOLEAN :
              /\ log' = [log EXCEPT ![p] = Append(@, Entry("load_job", ok))]
              /\ IF ok
                 THEN /\ job' = [job EXCEPT ![p] =
                                   [state |-> "RUNNING", errors |-> <<>>,
                                    config |-> LocalJobConfig,
                                    input |-> csv[p]]]
                      /\ pc' = [pc EXCEPT ![p] = "l_result"]
                 ELSE /\ pc' = [pc EXCEPT ![p] = "l_except"]
                      /\ UNCHANGED job
    /\ UNCHANGED <<script, ip, runs, quota, csv, status, surfaced, observed,
                   table, table0, lastCommit, tempDir, fs, bucket, bucket0,
                   wildcard, staged>>

\* The warehouse runs the job: it fails as a whole (a bad record, or an
\* error of the service) and leaves the table alone, or it replaces the
\* table in one step.
JobRun(p) ==
    /\ job[p].state = "RUNNING"
    /\ \E fault \in BOOLEAN :
         IF fault \/ HasBadRecord(job[p].input, job[p].config)
         THEN /\ job' = [job EXCEPT ![p].state = "DONE",
                                    ![p].errors =
                                       IF HasBadRecord(job[p].input, job[p].config)
                                       THEN <<"invalid">>
                                       ELSE <<"backendError">>]
              /\ UNCHANGED <<table, lastCommit>>
         ELSE /\ job' = [job EXCEPT ![p].state = "DONE"]
              /\ table' = [table EXCEPT ![LocalTable] =
                             Written(@, job[p].input, job[p].config)]
              /\ lastCommit' = p
    /\ UNCHANGED <<script, pc, ip, runs, quota, csv, log, status, surfaced,
                   observed, table0, tempDir, fs, bucket, bucket0, wildcard, staged>>

\* load_job.result(): returns when the job is done, raises when it failed.
LResult(p) ==
    /\ pc[p] = "l_result"
    /\ job[p].state = "DONE"
    /\ log' = [log EXCEPT ![p] = Append(@, Entry("result", job[p].errors = <<>>))]
    /\ pc' = [pc EXCEPT ![p] =
                IF job[p].errors = <<>> THEN "l_get_table" ELSE "l_except"]
    /\ UNCHANGED <<script, ip, runs, quota, csv, job, status, surfaced,
                   observed, table, table0, lastCommit, tempDir, fs, bucket,
                   bucket0, wildcard, staged>>

\* table = client.get_table(table_fqn); prints; return table.  Still inside
\* the try: a failure of the metadata read is reported as a failed load.
LGetTable(p) ==
    /\ pc[p] = "l_get_table"
    /\ \E ok \in BOOLEAN :
         /\ log' = [log EXCEPT ![p] = Append(@, Entry("get_table", ok))]
         /\ pc' = [pc EXCEPT ![p] = IF ok THEN "l_verify" ELSE "l_except"]
    /\ UNCHANGED <<script, ip, runs, quota, csv, job, status, surfaced,
                   observed, table, table0, lastCommit, tempDir, fs, bucket,
                   bucket0, wildcard, staged>>

\* SurfacedErrors with the fault of printing the exception only.
SurfacedErrorsNone(j) == <<>>

\* if 'load_job' in locals() and getattr(load_job, 'errors', None): print each
SurfacedErrors(j) == IF j # NoJob /\ j.errors # <<>> THEN j.errors ELSE <<>>

\* AfterLoadFailure with the fault of not ending the run.
AfterLoadFailureContinue == [pc |-> "l_verify", status |-> Running]

\* sys.exit(1) at the end of load_to_bigquery's handler.
AfterLoadFailure == [pc |-> "exited", status |-> Exited(1)]

\* except Exception as e: print; surface the job's errors; sys.exit(1)
LExcept(p) ==
    /\ pc[p] = "l_except"
    /\ surfaced' = [surfaced EXCEPT ![p] = SurfacedErrors(job[p])]
    /\ pc' = [pc EXCEPT ![p] = AfterLoadFailure.pc]
    /\ status' = [status EXCEPT ![p] = AfterLoadFailure.status]
    /\ UNCHANGED <<script, ip, runs, quota, csv, job, log, observed, table,
                   table0, lastCommit, tempDir, fs, bucket, bucket0, wildcard, staged>>

\* verify_table, to the end of its first query: a client (the credentials
\* that served the load serve it too) and the COUNT query, whose failure
\* is caught and printed.
LVerifyCount(p) ==
    /\ pc[p] = "l_verify"
    /\ \E ok \in BOOLEAN :
         /\ log' = [log EXCEPT ![p] =
                      @ \o <<Entry("client", TRUE), Entry("query", ok)>>]
         /\ observed' = [observed EXCEPT ![p] =
                           IF ok THEN Append(@, table[LocalTable]) ELSE @]
         /\ pc' = [pc EXCEPT ![p] = IF ok THEN "l_sample" ELSE "l_finish"]
    /\ UNCHANGED <<script, ip, runs, quota, csv, job, status, surfaced, table,
                   table0, lastCommit, tempDir, fs, bucket, bucket0, wildcard, staged>>

\* SELECT * ... LIMIT 3, inside the same try.
LVerifySample(p) ==
    /\ pc[p] = "l_sample"
    /\ \E ok \in BOOLEAN :
         /\ log' = [log EXCEPT ![p] = Append(@, Entry("query", ok))]
         /\ observed' = [observed EXCEPT ![p] =
                           IF ok THEN Append(@, table[LocalTable]) ELSE @]
         /\ pc' = [pc EXCEPT ![p] = "l_finish"]
    /\ UNCHANGED <<script, ip, runs, quota, csv, job, status, surfaced, table,
                   table0, lastCommit, tempDir, fs, bucket, bucket0, wildcard, staged>>

\* main prints "Load Complete!" and returns: the interpreter exits with 0.
LFinish(p) ==
    /\ pc[p] = "l_finish"
    /\ pc' = [pc EXCEPT ![p] = "exited"]
    /\ status' = [status EXCEPT ![p] = Exited(0)]
    /\ UNCHANGED <<script, ip, runs, quota, csv, job, log, surfaced, observed,
                   table, table0, lastCommit, tempDir, fs, bucket, bucket0,
                   wildcard, staged>>

Local(p) ==
    \/ LExists(p) \/ LClient(p) \/ LSubmit(p) \/ JobRun(p) \/ LResult(p)
    \/ LGetTable(p) \/ LExcept(p) \/ LVerifyCount(p) \/ LVerifySample(p)
    \/ LFinish(p)

\* ------------------------------------------------ the remote bulk loader
\* MainSteps without the exit(2) that follows the conversion.
MainStepsNoEarlyExit ==
    <<"convert", "upload", "load", "verify", "cleanup_gcs", "cleanup_local">>

\* The statements of main's try block, in order.
MainSteps ==
    <<"convert", "exit2", "upload", "load", "verify", "cleanup_gcs",
      "cleanup_local">>

\* What happens to a call of the step: it goes well, it fails in the way
\* the step's own handler catches, or it raises past that handler.
Hows == {"ok", "fail", "raise"}

NoExc == "none"

\* A step's effect: the exception it ends with (NoExc: it returns), the exit
\* code a SystemExit carries, and the state it leaves.
Eff(p, exc, code, entries, f, b, t, w, o) ==
    [exc |-> exc, code |-> code, entries |-> entries, fs |-> f, bucket |-> b,
     table |-> t, wildcard |-> w, observed |-> o,
     staged |-> staged[p]]

Returns(p, entries, f, b, t, w, o) == Eff(p, NoExc, 0, entries, f, b, t, w, o)

\* The step ends with an exception and has changed nothing.
Raises(p, cls, code, entries) ==
    Eff(p, cls, code, entries, fs, bucket, table, wildcard[p], observed[p])

\* ncbi_to_parquet(SOURCE_URL, Path(temp_dir)): DuckDB copies the remote
\* table into n Parquet files; any failure is caught and ends in sys.exit(1).
Convert(p, how, n) ==
    IF how = "ok"
    THEN Returns(p, <<Entry("convert", TRUE)>>,
                 [fs EXCEPT ![tempDir[p]] = @ \cup ParquetFiles(n)],
                 bucket, table, wildcard[p], observed[p])
    ELSE Raises(p, "SystemExit", 1, <<Entry("convert", FALSE)>>)

\* exit(2)
EarlyExit(p) == Raises(p, "SystemExit", 2, <<>>)

\* upload_chunks_parallel(Path(temp_dir)): one "gcloud storage cp" of the
\* files the pattern selects.  A failing gcloud (also: nothing selected) is
\* caught and ends in sys.exit(1); a missing gcloud raises FileNotFoundError,
\* which the function does not catch.
UploadChunksParallel(p, how) ==
    LET sel == IF tempDir[p] \in DOMAIN fs
               THEN Selected(fs[tempDir[p]], UploadPattern) ELSE {}
    IN
    IF how = "raise"
    THEN Raises(p, "Exception", 1, <<Entry("upload", FALSE)>>)
    ELSE IF how = "fail" \/ sel = {}
    THEN Raises(p, "SystemExit", 1, <<Entry("upload", FALSE)>>)
    ELSE [Returns(p, <<Entry("upload", TRUE)>>, fs,
                  bucket \cup {ObjectFor(GcsDestination, f) : f \in sel},
                  table, WildcardUri, observed[p])
            EXCEPT !.staged = {ObjectFor(GcsDestination, f) : f \in sel}]

\* load_to_bigquery(wildcard_uri): the client and the submission are outside
\* the try (an exception there leaves the function); result() and get_table
\* are inside it (sys.exit(1)).  The job reads the objects the URI denotes:
\* it fails when there is none or when one is not what the settings say.
RemoteLoad(p, how) ==
    LET den == Denoted(bucket, wildcard[p])
        cfg == RemoteJobConfig
        rows == SetToSeq(den)
        sent == <<Entry("client", TRUE), Entry("load_job", TRUE)>>
    IN
    IF how = "raise"
    THEN Raises(p, "Exception", 1, <<Entry("client", FALSE)>>)
    ELSE IF how = "fail" \/ den = {} \/ \E o \in den : ~Readable(o, cfg)
    THEN Raises(p, "SystemExit", 1, Append(sent, Entry("result", FALSE)))
    ELSE Returns(p, sent \o <<Entry("result", TRUE), Entry("get_table", TRUE)>>,
                 fs, bucket,
                 [table EXCEPT ![RemoteTable] =
                    IF cfg.write_disposition = "WRITE_TRUNCATE"
                    THEN rows ELSE @ \o rows],
                 wildcard[p], observed[p])

\* verify_table(): a failing query is caught and printed.
RemoteVerify(p, how) ==
    Returns(p, <<Entry("client", TRUE), Entry("query", how = "ok")>>,
            fs, bucket, table, wildcard[p],
            IF how = "ok" THEN Append(observed[p], table[RemoteTable])
            ELSE observed[p])

\* cleanup_gcs(wildcard_uri, keep_file=True): prints what it keeps.
CleanupGcs(p) == Returns(p, <<>>, fs, bucket, table, wildcard[p], observed[p])

\* The file system without directory d.
Without(f, d) == [x \in (DOMAIN f) \ {d} |-> f[x]]

\* cleanup_local_files(temp_dir): shutil.rmtree, a failure caught and printed.
CleanupLocalFiles(p, how) ==
    Returns(p, <<Entry("cleanup_local", how = "ok")>>,
            IF how = "ok" THEN Without(fs, tempDir[p]) ELSE fs,
            bucket, table, wildcard[p], observed[p])

Effect(stmt, p, how, n) ==
    CASE stmt = "convert" -> Convert(p, how, n)
      [] stmt = "exit2" -> EarlyExit(p)
      [] stmt = "upload" -> UploadChunksParallel(p, how)
      [] stmt = "load" -> RemoteLoad(p, how)
      [] stmt = "verify" -> RemoteVerify(p, how)
      [] stmt = "cleanup_gcs" -> CleanupGcs(p)
      [] stmt = "cleanup_local" -> CleanupLocalFiles(p, how)

\* main's handler: "## cleanup_local_files(temp_dir)" is commented out.
HandlerCleansUp == FALSE

\* How main's try block ends.  A step that returns is followed by the next
\* one, and by the end of main (exit status 0) after the last.  An
\* exception that "except Exception" catches runs the handler, which ends
\* in sys.exit(1); any other leaves main and ends the run with its own code.
Ending(eff, last) ==
    IF eff.exc = NoExc
    THEN [ends |-> last, status |-> 0, cleans |-> FALSE]
    ELSE IF CaughtByExceptException(eff.exc)
    THEN [ends |-> TRUE, status |-> 1, cleans |-> HandlerCleansUp]
    ELSE [ends |-> TRUE, status |-> eff.code, cleans |-> FALSE]

\* temp_dir = tempfile.mkdtemp(prefix="sra_accessions_"), before the try:
\* a directory no other run has.
RMkdtemp(p) ==
    /\ pc[p] = "r_mkdtemp"
    /\ \E ok \in BOOLEAN :
         IF ok
         THEN /\ tempDir' = [tempDir EXCEPT ![p] = <<p, runs[p]>>]
              /\ fs' = [d \in (DOMAIN fs) \cup {<<p, runs[p]>>} |->
                          IF d \in DOMAIN fs THEN fs[d] ELSE {}]
              /\ log' = [log EXCEPT ![p] = Append(@, Entry("mkdtemp", TRUE))]
              /\ pc' = [pc EXCEPT ![p] = "r_try"]
              /\ ip' = [ip EXCEPT ![p] = 1]
              /\ UNCHANGED status
         ELSE /\ log' = [log EXCEPT ![p] = Append(@, Entry("mkdtemp", FALSE))]
              /\ pc' = [pc EXCEPT ![p] = "exited"]
              /\ status' = [status EXCEPT ![p] = Exited(1)]
              /\ UNCHANGED <<tempDir, fs, ip>>
    /\ UNCHANGED <<script, runs, quota, csv, job, surfaced, observed, table,
                   table0, lastCommit, bucket, bucket0, wildcard, staged>>

\* One statement of the try block, with whatever ends the block after it.
RStep(p) ==
    /\ pc[p] = "r_try"
    /\ ip[p] \in 1..Len(MainSteps)
    /\ \E how \in Hows, n \in 1..MaxChunks :
         LET eff == Effect(MainSteps[ip[p]], p, how, n)
             end == Ending(eff, ip[p] = Len(MainSteps))
         IN
         /\ log' = [log EXCEPT ![p] = @ \o eff.entries]
         /\ fs' = IF end.cleans THEN Without(eff.fs, tempDir[p]) ELSE eff.fs
         /\ bucket' = eff.bucket
         /\ table' = eff.table
         /\ wildcard' = [wildcard EXCEPT ![p] = eff.wildcard]
         /\ staged' = [staged EXCEPT ![p] = eff.staged]
         /\ observed' = [observed EXCEPT ![p] = eff.observed]
         /\ IF end.ends
            THEN /\ pc' = [pc EXCEPT ![p] = "exited"]
                 /\ status' = [status EXCEPT ![p] = Exited(end.status)]
                 /\ UNCHANGED ip
            ELSE /\ ip' = [ip EXCEPT ![p] = @ + 1]
                 /\ UNCHANGED <<pc, status>>
    /\ UNCHANGED <<script, runs, quota, csv, job, surfaced, table0, lastCommit,
                   tempDir, bucket0>>

Remote(p) == RMkdtemp(p) \/ RStep(p)

\* ------------------------------------------------------- specifications
TypeOK ==
    /\ script \in [Procs -> {"none", "local", "remote"}]
    /\ status \in [Procs -> {Running, Exited(0), Exited(1), Exited(2)}]
    /\ runs \in [Procs -> 0..MaxRuns]

InitWith(q) ==
    /\ script = [p \in Procs |-> "none"]
    /\ pc = [p \in Procs |-> "idle"]
    /\ ip = [p \in Procs |-> 0]
    /\ runs = [p \in Procs |-> 0]
    /\ quota = q
    /\ csv = [p \in Procs |-> Missing]
    /\ job = [p \in Procs |-> NoJob]
    /\ log = [p \in Procs |-> <<>>]
    /\ status = [p \in Procs |-> Running]
    /\ surfaced = [p \in Procs |-> <<>>]
    /\ observed = [p \in Procs |-> <<>>]
    /\ table \in PriorTables
    /\ table0 = [p \in Procs |-> table]
    /\ lastCommit = 0
    /\ tempDir = [p \in Procs |-> NoDir]
    /\ fs = <<>>
    /\ bucket = {}
    /\ bucket0 = bucket
    /\ wildcard = [p \in Procs |-> NoUri]
    /\ staged = [p \in Procs |-> {}]

\* Two invocations, one run each, in any interleaving.
Init == InitWith([p \in Procs |-> 1])

Next == \E p \in Procs : Start(p) \/ Local(p) \/ Remote(p)

Spec == Init /\ [][Next]_vars

\* One invocation after another: process 1 alone, up to MaxRuns runs.
SeqInit == InitWith([p \in Procs |-> IF p = 1 THEN MaxRuns ELSE 0])

SeqNext == \E p \in {1} : Start(p) \/ Local(p) \/ Remote(p)

SeqSpec == SeqInit /\ [][SeqNext]_vars

\* The tail of main from STEP 2 on, entered directly: upload_chunks_parallel
\* and the steps that consume what it returns, run on an arbitrary chunks
\* directory and an arbitrary bucket.
ChunkOfEarlierLayout == <<"SRA_Accessions", "_part", "001", ".tab.gz">>

StageFiles == ParquetFiles(MaxChunks) \cup {ChunkOfEarlierLayout, <<"notes", ".txt">>}

StageObjects ==
    {ObjectFor(GcsDestination, ChunkOfEarlierLayout),
     ObjectFor(GcsDestination, ParquetName(0))}

StepIndex(stmt) == CHOOSE i \in 1..Len(MainSteps) : MainSteps[i] = stmt

StageInit ==
    /\ script = [p \in Procs |-> IF p = 1 THEN "remote" ELSE "none"]
    /\ pc = [p \in Procs |-> IF p = 1 THEN "r_try" ELSE "idle"]
    /\ ip = [p \in Procs |-> IF p = 1 THEN StepIndex("upload") ELSE 0]
    /\ runs = [p \in Procs |-> IF p = 1 THEN 1 ELSE 0]
    /\ quota = runs
    /\ csv = [p \in Procs |-> Missing]
    /\ job = [p \in Procs |-> NoJob]
    /\ log = [p \in Procs |-> <<>>]
    /\ status = [p \in Procs |-> Running]
    /\ surfaced = [p \in Procs |-> <<>>]
    /\ observed = [p \in Procs |-> <<>>]
    /\ table \in PriorTables
    /\ table0 = [p \in Procs |-> table]
    /\ lastCommit = 0
    /\ tempDir = [p \in Procs |-> IF p = 1 THEN <<1, 1>> ELSE NoDir]
    /\ \E files \in SUBSET StageFiles : fs = [d \in {<<1, 1>>} |-> files]
    /\ bucket \in SUBSET StageObjects
    /\ bucket0 = bucket
    /\ wildcard = [p \in Procs |-> NoUri]
    /\ staged = [p \in Procs |-> {}]

StageNext == \E p \in {1} : RStep(p)

StageSpec == StageInit /\ [][StageNext]_vars

\* ============================================================== properties
Ended(p) == pc[p] = "exited"
LocalRun(p) == script[p] = "local"
RemoteRun(p) == script[p] = "remote"

Did(p, op, ok) == \E i \in 1..Len(log[p]) : log[p][i] = Entry(op, ok)
Count(p, op) == Cardinality({i \in 1..Len(log[p]) : log[p][i].op = op})

\* The records of a source file other than its header.
DataRows(f) == SelectSeq(f, LAMBDA r : r # Header)

\* The operations whose failure the pipelines treat as fatal: creating the
\* working directory, conversion, upload, and the load step's calls.
FatalOps ==
    {"mkdtemp", "convert", "upload", "client", "load_job", "result", "get_table"}

FatalFailure(p) ==
    \/ LocalRun(p) /\ csv[p] = Missing
    \/ \E i \in 1..Len(log[p]) : log[p][i].op \in FatalOps /\ ~log[p][i].ok

\* The load step of p's run failed: the submission raised or the job failed.
LoadFailed(p) == Did(p, "load_job", FALSE) \/ Did(p, "result", FALSE)

\* The load job of p's run replaced the table.
Committed(p) == job[p] # NoJob /\ job[p].state = "DONE" /\ job[p].errors = <<>>

\* C1: in the remote bulk loader, a run that created its temporary directory
\* has removed it when the process has terminated, however the run ended.
C1_TempDirRemovedAtExit ==
    \A p \in Procs :
        (RemoteRun(p) /\ Ended(p) /\ tempDir[p] # NoDir)
            => tempDir[p] \notin DOMAIN fs

\* C2: in the local-file loader, a run whose source CSV is absent ends with a
\* non-zero status, has performed no warehouse operation (no client, no load
\* job, no metadata read, no query) and leaves the tables as they were.
C2_MissingSourceNoWarehouseOp ==
    \A p \in Procs :
        (LocalRun(p) /\ Ended(p) /\ csv[p] = Missing)
            => /\ status[p] \notin {Running, Exited(0)}
               /\ log[p] = <<>>
               /\ job[p] = NoJob
               /\ table = table0[p]

\* A run on an absent source has ended, after an earlier run loaded rows.
C2_Witness ==
    /\ LocalRun(1) /\ Ended(1) /\ csv[1] = Missing /\ runs[1] = 2
    /\ table[LocalTable] \notin {<<>>, <<OldRow>>}

\* C3: a run's exit status is zero exactly when no fatal step failed; what
\* the verify queries do does not enter into it.
C3_ExitZeroIffNoFatalFailure ==
    \A p \in Procs : Ended(p) => (status[p] = Exited(0) <=> ~FatalFailure(p))

\* C4: a run issues at most one load job, the job carries WRITE_TRUNCATE, and
\* a run that ended with status zero issued exactly one job, which completed.
C4_OneTruncatingLoadJob ==
    /\ RemoteJobConfig.write_disposition = "WRITE_TRUNCATE"
    /\ \A p \in Procs :
        /\ Count(p, "load_job") <= 1
        /\ Count(p, "result") <= 1
        /\ job[p] # NoJob => job[p].config.write_disposition = "WRITE_TRUNCATE"
        /\ (Ended(p) /\ status[p] = Exited(0))
              => /\ Count(p, "load_job") = 1
                 /\ Did(p, "load_job", TRUE)
                 /\ Did(p, "result", TRUE)
                 /\ LocalRun(p) => Committed(p)

\* A run has ended with status zero next to one whose job failed.
C4_Witness ==
    /\ Ended(1) /\ status[1] = Exited(0) /\ Committed(1)
    /\ Ended(2) /\ Did(2, "result", FALSE)

\* C5: when a run of the local-file loader has completed successfully, the
\* table holds exactly the data rows of the source that run read, in order,
\* whatever it held before; so its row count is the source's data-row count,
\* and a run on a source the table already mirrors leaves the table as it was.
C5_TableIsSourceDataRows ==
    \A p \in Procs :
        (LocalRun(p) /\ Ended(p) /\ status[p] = Exited(0))
            => /\ table[LocalTable] = DataRows(csv[p])
               /\ Len(table[LocalTable]) = Len(csv[p]) - 1
               /\ table0[p][LocalTable] = DataRows(csv[p]) => table = table0[p]

\* A second successful run replaced the row loaded by the first with its own.
C5_Witness ==
    /\ LocalRun(1) /\ Ended(1) /\ status[1] = Exited(0) /\ runs[1] = 2
    /\ table0[1][LocalTable] = <<"r1">>
    /\ csv[1] = <<Header, "r2">>
    /\ table[LocalTable] = <<"r2">>

\* C6: in the local-file loader, when the load fails, the failed job's errors
\* (if there is a job and it has any) have been printed when the run ends,
\* the status is non-zero, no verify query was run and the tables are as
\* they were.
C6_LoadFailureSurfacedAndFatal ==
    \A p \in Procs :
        (LocalRun(p) /\ Ended(p) /\ LoadFailed(p))
            => /\ (job[p] # NoJob /\ job[p].errors # <<>>)
                     => surfaced[p] = job[p].errors
               /\ job[p] = NoJob => surfaced[p] = <<>>
               /\ status[p] \notin {Running, Exited(0)}
               /\ Count(p, "query") = 0
               /\ table = table0[p]

\* A job failed on a bad record after an earlier run had loaded rows.
C6_Witness ==
    /\ LocalRun(1) /\ Ended(1) /\ Did(1, "result", FALSE)
    /\ surfaced[1] = <<"invalid">>
    /\ runs[1] = 2
    /\ table[LocalTable] \notin {<<>>, <<OldRow>>}

\* C7: the URI upload_chunks_parallel returns denotes the objects it
\* uploaded, so that the load step given the URI reads exactly those.
C7_ReturnedUriDenotesStaged ==
    \A p \in Procs :
        wildcard[p] # NoUri
            => /\ \A o \in staged[p] : GlobMatch(wildcard[p], o)
               /\ (Did(p, "result", TRUE)
                     => table[RemoteTable] = SetToSeq(staged[p]))

\* C8: the steps run in pipeline order, each after the one before it
\* succeeded: a load job only after conversion and upload (remote) or the
\* client (local); a verify query only after the job's result; the local
\* cleanup only after verify; and nothing after a fatal failure.
Before(p, i, op) == \E j \in 1..(i - 1) : log[p][j] = Entry(op, TRUE)

C8_StepsInOrder ==
    \A p \in Procs : \A i \in 1..Len(log[p]) :
        LET e == log[p][i] IN
        /\ (e.op = "load_job" /\ RemoteRun(p))
              => Before(p, i, "convert") /\ Before(p, i, "upload")
        /\ e.op = "load_job" => Before(p, i, "client")
        /\ e.op = "result" => Before(p, i, "load_job")
        /\ e.op = "get_table" => Before(p, i, "result")
        /\ e.op = "query" => Before(p, i, "result") /\ Before(p, i, "get_table")
        /\ e.op = "cleanup_local" => \E j \in 1..(i - 1) : log[p][j].op = "query"
        /\ (e.op \in FatalOps /\ ~e.ok) => i = Len(log[p])

\* Both ends of the order: a run that verified, and a run that stopped at
\* its failed job.
C8_Witness ==
    /\ Ended(1) /\ status[1] = Exited(0) /\ Count(1, "query") = 2
    /\ Ended(2) /\ Did(2, "result", FALSE) /\ Count(2, "query") = 0

\* C9: no run of the remote bulk loader reaches upload, load, verify or
\* cleanup: it ends with status 2 once the conversion has returned and with
\* status 1 otherwise, nothing is staged, no load job is issued and its
\* destination table stays as it was.
C9_RemoteStopsAfterConversion ==
    \A p \in Procs :
        RemoteRun(p)
            => /\ \A i \in 1..Len(log[p]) : log[p][i].op \in {"mkdtemp", "convert"}
               /\ staged[p] = {} /\ wildcard[p] = NoUri
               /\ bucket = bucket0
               /\ table[RemoteTable] = table0[p][RemoteTable]
               /\ Ended(p) => /\ status[p] \in {Exited(1), Exited(2)}
                              /\ status[p] = Exited(2) <=> Did(p, "convert", TRUE)

\* A run whose conversion wrote its files ended with status 2.
C9_Witness ==
    /\ RemoteRun(1) /\ Ended(1) /\ status[1] = Exited(2)
    /\ tempDir[1] \in DOMAIN fs /\ fs[tempDir[1]] = ParquetFiles(MaxChunks)

\* C10: when two concurrent runs of the local-file loader have both ended
\* and a job of theirs replaced the table, the table holds exactly the data
\* rows of the source of the job that committed last, not a mixture.
C10_LastCommitWins ==
    (\A p \in Procs : LocalRun(p) /\ Ended(p)) /\ (\E p \in Procs : Committed(p))
        => /\ lastCommit \in Procs
           /\ Committed(lastCommit)
           /\ table[LocalTable] = DataRows(csv[lastCommit])

\* Both jobs committed, from different sources, and the run whose job came
\* first saw in its verify query the rows of the other.
C10_Witness ==
    /\ \A p \in Procs : LocalRun(p) /\ Ended(p) /\ Committed(p) /\ status[p] = Exited(0)
    /\ DataRows(csv[1]) = <<"r1">> /\ DataRows(csv[2]) = <<"r2">>
    /\ lastCommit = 2
    /\ observed[1] = <<DataRows(csv[2]), DataRows(csv[2])>>

====
